---- MODULE Spec2Model ----
(***************************************************************************)
(* IPRescue tool: the three deformer operations (superDelta.execute,       *)
(* PullPush.execute_pull, PullPush.execute_push) of IPRescue_UI.py and the *)
(* helpers of IPRescue_prog.py (selection_check, paint_mode, deltaMush,    *)
(* texture_deformer), run against a small model of the host: the active    *)
(* selection, the undo chunks, the main pane's manage flag, the current    *)
(* time, the deformers of the scene and the paint tool.                    *)
(*                                                                         *)
(* Every handler is executed host command by host command (pc); a host     *)
(* command that can fail either succeeds or raises.  The undo and pane     *)
(* commands and the queries are taken to be reliable.                      *)
(***************************************************************************)
EXTENDS Integers, Sequences, FiniteSets, TLC

\* ---------------------------------------------------------------- bounds
MaxOps == 2          \* operations that get past selection resolution
MeshQuads == 2       \* the mesh is a strip of MeshQuads quads
MaxRadius == 2       \* the smooth sliders range over 0..MaxRadius
MaxStrength == 2     \* the strength slider ranges over 1..MaxStrength
MaxTime == 2         \* the current time ranges over FirstFrame..MaxTime
MaxSelItems == 3     \* components of one selection in SpecSel
WeightScale == 4     \* influence 1.0 in fixed point

\* ------------------------------------------------------ program constants
FirstFrame == 1
DefaultIterations == 10
PullOffset == 1
PushOffset == -1

Objects == {"A", "B"}

\* ------------------------------------------------------------------ names
\* A node name is a sequence of tokens: <<"A">> is the transform of object
\* A, <<"A", "Shape">> its mesh shape.  <<>> stands for "no name".
NoName == <<>>
TransformOf(o) == <<o>>
ShapeOf(o) == <<o, "Shape">>
Nodes == {TransformOf(o) : o \in Objects} \cup {ShapeOf(o) : o \in Objects}

\* '{}_{}'.format(a, b)
Format(a, b) == a \o <<"_">> \o b

\* mc.objectType(geo)
objectType(geo) == IF Len(geo) = 2 THEN "mesh" ELSE "transform"
\* mc.listRelatives(geo, parent=True)[0]
listRelatives(geo) == <<geo[1]>>

\* ------------------------------------------------------------------- mesh
\* A strip of quads: vertices 1..Q+1 on the top row, Q+2..2Q+2 below them.
NumVerts == 2 * (MeshQuads + 1)
NumEdges == 3 * MeshQuads + 1
Verts == 1..NumVerts
EdgeVerts(e) ==
    IF e <= MeshQuads THEN {e, e + 1}
    ELSE IF e <= 2 * MeshQuads
         THEN {e + 1, e + 2}
         ELSE {e - 2 * MeshQuads, e - MeshQuads + 1}
FaceVerts(f) == {f, f + 1, f + MeshQuads + 1, f + MeshQuads + 2}
Neighbours(v) == {u \in Verts : \E e \in 1..NumEdges : EdgeVerts(e) = {u, v}}

Components ==
    [t : {"vtx"}, i : Verts] \cup [t : {"e"}, i : 1..NumEdges]
        \cup [t : {"f"}, i : 1..MeshQuads]

\* ------------------------------------------------------- host selection
\* node: the selected object (NoName: nothing selected); whole: the object
\* itself is on the selection list; comps: its selected components.
NoSelection == [node |-> NoName, whole |-> FALSE, comps |-> {}]
ObjectSel(o) == [node |-> TransformOf(o), whole |-> TRUE, comps |-> {}]
ComponentSel(o, cs) == [node |-> ShapeOf(o), whole |-> FALSE, comps |-> cs]

\* Canonical order of a component set: vertices, edges, faces by index.
Rank(c) == (IF c.t = "vtx" THEN 0 ELSE IF c.t = "e" THEN 100 ELSE 200) + c.i
RECURSIVE SortComps(_)
SortComps(cs) ==
    IF cs = {} THEN <<>>
    ELSE LET c == CHOOSE x \in cs : \A y \in cs : Rank(x) <= Rank(y)
         IN <<c>> \o SortComps(cs \ {c})

\* The text of one entry of mc.ls(sl=True, fl=True), token by token.
AttrTokens(t) ==
    IF t = "vtx" THEN <<"v", "t", "x">>
    ELSE IF t = "e" THEN <<"e">> ELSE <<"f">>
ItemText(node, c) ==
    node \o <<".">> \o AttrTokens(c.t) \o <<"[", ToString(c.i), "]">>

\* mc.ls(sl=True, o=True)
lsObjects(s) == IF s.node = NoName THEN <<>> ELSE <<s.node>>
\* mc.ls(sl=True, fl=True): the object names, then the flattened components
lsFlat(s) ==
    (IF s.whole THEN <<[text |-> s.node, c |-> [t |-> "obj", i |-> 0]]>>
     ELSE <<>>)
    \o [k \in 1..Cardinality(s.comps) |->
          LET c == SortComps(s.comps)[k]
          IN [text |-> ItemText(s.node, c), c |-> c]]

\* Python's `sub in text`
Contains(text, sub) ==
    \E k \in 1..Len(text) :
        /\ k + Len(sub) - 1 <= Len(text)
        /\ SubSeq(text, k, k + Len(sub) - 1) = sub

RECURSIVE SortVerts(_)
SortVerts(vs) ==
    IF vs = {} THEN <<>>
    ELSE LET v == CHOOSE x \in vs : \A y \in vs : x <= y
         IN <<v>> \o SortVerts(vs \ {v})

\* Faulty conversion: the face conversion also converts from edges.
polyListComponentConversion_FromEdgeOnly(items, from) ==
    SortVerts(UNION {IF items[k].c.t = "e"
                     THEN EdgeVerts(items[k].c.i)
                     ELSE {} : k \in 1..Len(items)})

\* mc.polyListComponentConversion(items, fe=1, tv=1) / (items, ff=1, tv=1):
\* the vertices of the edges (faces) among the items.
polyListComponentConversion(items, from) ==
    SortVerts(UNION {IF items[k].c.t = from
                     THEN (IF from = "e" THEN EdgeVerts(items[k].c.i)
                           ELSE FaceVerts(items[k].c.i))
                     ELSE {} : k \in 1..Len(items)})

\* The loop of selection_check over the first n entries of geo_type.
RECURSIVE vtxSelLoop(_, _)
vtxSelLoop(items, n) ==
    IF n = 0 THEN <<>>
    ELSE LET item == items[n]
             done == vtxSelLoop(items, n - 1)
         IN IF Contains(item.text, <<".", "v", "t", "x">>)
            THEN Append(done, item.c.i)
            ELSE IF Contains(item.text, <<".", "e">>)
            THEN done \o polyListComponentConversion(items, "e")
            ELSE IF Contains(item.text, <<".", "f">>)
            THEN done \o polyListComponentConversion(items, "f")
            ELSE done

\* Faulty resolution: an empty selection list is not an error.
selection_check_NoRaise(s) ==
    [raised |-> FALSE,
     geo |-> s.node,
     geo_type |-> lsFlat(s),
     vtxSel |-> vtxSelLoop(lsFlat(s), Len(lsFlat(s)))]

\* selection_check(): raises IndexError when nothing is selected.
selection_check(s) ==
    IF lsObjects(s) = <<>>
    THEN [raised |-> TRUE, geo |-> NoName, geo_type |-> <<>>, vtxSel |-> <<>>]
    ELSE [raised |-> FALSE,
          geo |-> lsObjects(s)[1],
          geo_type |-> lsFlat(s),
          vtxSel |-> vtxSelLoop(lsFlat(s), Len(lsFlat(s)))]

Range(q) == {q[k] : k \in 1..Len(q)}

\* ----------------------------------------------------------------- values
\* Sliders.value_text() returns float(text); int() converts; range() of a
\* float raises TypeError.
float(n) == [val |-> n, type |-> "float"]
int(x) == [val |-> x.val, type |-> "int"]
Times(x, n) == [val |-> x.val * n, type |-> x.type]
NoValue == [val |-> 0, type |-> "none"]

\* ------------------------------------------------------------------ state
VARIABLES
    sel,        \* host: the active selection
    curTime,    \* host: current playback time
    manage,     \* host: manage flag of the main pane (viewport shown)
    chunk,      \* host: undo chunks open (opened and not yet closed)
    opens,      \* undoInfo(openChunk=True) calls of the running handler
    closes,     \* undoInfo(closeChunk=True) calls of the running handler
    scene,      \* host: number of deformer nodes in the scene
    node,       \* host: the deformer the running handler has created
    weights,    \* host: influence map of that deformer
    paintCtx,   \* host: the deformer that handler has put under the paint
                \* tool, by creation index (0: none)
    notes,      \* QMessageBox.critical dialogs of the running handler
    note,       \* the last of them
    pp,         \* fields of PullPush a later click reads before writing
    pc,         \* position of the running handler ("done": it has just
                \* returned; "idle": none runs)
    op,         \* the running handler's locals
    escaped,    \* exception that handler let escape to Qt ("" if none)
    started     \* handlers that got past selection resolution

vars == <<sel, curTime, manage, chunk, opens, closes, scene, node, weights,
          paintCtx, notes, note, pp, pc, op, escaped, started>>

\* A handler only ever addresses the deformer it has created itself (by the
\* name the host returned): of the deformers of earlier handlers only the
\* count is kept, and node, weights and paintCtx follow the running
\* handler's one (NoNode while it has created none).  The calls and dialogs
\* are counted per handler; what the host keeps of the undo calls is chunk.
host == <<sel, curTime, manage, chunk, opens, closes, scene, node, weights,
          paintCtx>>

NoNote == [title |-> "", text |-> <<>>]

NoNode ==
    [type |-> "none", name |-> NoName, target |-> NoName, si |-> 0,
     strength |-> 0, offset |-> 0, displacement |-> 0, texture |-> 0,
     hidden |-> FALSE]

NoOp ==
    [kind |-> "none", geo |-> NoName, vtx |-> <<>>, radius |-> NoValue,
     value |-> NoValue, name |-> NoName, d |-> 0, currentFrame |-> 0,
     i |-> 0, err |-> "", paintErr |-> "", cmds |-> <<>>,
     pre |-> [time |-> 0, manage |-> TRUE, chunk |-> 0, deformers |-> 0,
              sel |-> NoSelection]]

\* Snapshot of the host taken when a handler is entered.
Snapshot(s) ==
    [time |-> curTime, manage |-> manage, chunk |-> chunk,
     deformers |-> scene, sel |-> s]

\* The locals of a handler that got past selection resolution: the resolved
\* selection, the two slider values (value: iterations or strength) and the
\* name prefix of the texture deformer.
NewOp(kind, s, r, radius, value, name) ==
    [NoOp EXCEPT !.kind = kind, !.geo = r.geo, !.vtx = r.vtxSel,
                 !.radius = radius, !.value = value, !.name = name,
                 !.pre = Snapshot(s)]

Init ==
    /\ sel = NoSelection
    /\ curTime \in FirstFrame..MaxTime
    /\ manage = TRUE
    /\ chunk = 0
    /\ opens = 0
    /\ closes = 0
    /\ scene = 0
    /\ node = NoNode
    /\ weights = [v \in Verts |-> 0]
    /\ paintCtx = 0
    /\ notes = 0
    /\ note = NoNote
    /\ pp = [geo |-> NoName]
    /\ pc = "idle"
    /\ op = NoOp
    /\ escaped = ""
    /\ started = 0

\* -------------------------------------------------------------- triggers
\* The three buttons connected to the handlers.
Buttons == {"apply_superDelta_btn", "pull_btn", "push_btn"}
\* QPushButton.isEnabled(): a button is created enabled, and no handler
\* calls setEnabled, blockSignals or disconnect on it.
isEnabled(b) == b \in Buttons

\* ------------------------------------------------------------ the artist
PickSets ==
    {{[t |-> "vtx", i |-> 1]},
     {[t |-> "e", i |-> 1], [t |-> "f", i |-> 1]}}
Picks ==
    {NoSelection} \cup {ObjectSel(o) : o \in Objects}
        \cup {ComponentSel(o, cs) : o \in Objects, cs \in PickSets}

\* --------------------------------------------------------- entry points
\* The artist makes a selection and clicks a button.
Enter(s) ==
    /\ sel' = s
    /\ UNCHANGED <<curTime, manage, chunk, opens, closes, scene, node,
                   weights, paintCtx, notes, note>>

Aborted(kind, s) == [NoOp EXCEPT !.kind = kind, !.pre = Snapshot(s)]

\* superDelta.execute, up to the try: selection_check and the sliders.
Execute ==
    /\ pc = "idle"
    /\ started < MaxOps
    /\ \E s \in Picks :
         /\ Enter(s)
         /\ LET r == selection_check(s)
            IN IF r.raised
               THEN /\ escaped' = "IndexError"
                    /\ op' = Aborted("smooth", s)
                    /\ pc' = "done"
                    /\ UNCHANGED started
               ELSE /\ \E rad \in 0..MaxRadius :
                         op' = NewOp("smooth", s, r, float(rad),
                                     float(DefaultIterations), NoName)
                    /\ escaped' = ""
                    /\ pc' = "open"
                    /\ started' = started + 1
    /\ UNCHANGED pp

\* PullPush.check_sliders_values: the fields read again by a later click.
check_sliders_values(r) == [geo |-> r.geo]

\* PullPush.execute_pull, up to the creation of the deformer.
ExecutePull ==
    /\ pc = "idle"
    /\ started < MaxOps
    /\ \E s \in Picks :
         /\ Enter(s)
         /\ IF pp.geo = NoName
            THEN \* self.geo is not set before the first check_sliders_values
                 /\ escaped' = "AttributeError"
                 /\ op' = Aborted("pull", s)
                 /\ pc' = "done"
                 /\ UNCHANGED <<started, pp>>
            ELSE LET name == Format(pp.geo, <<"Pull">>)
                     r == selection_check(s)
                 IN IF r.raised
                    THEN /\ escaped' = "IndexError"
                         /\ op' = Aborted("pull", s)
                         /\ pc' = "done"
                         /\ UNCHANGED <<started, pp>>
                    ELSE /\ \E rad \in 0..MaxRadius, v \in 1..MaxStrength :
                              op' = NewOp("pull", s, r, float(rad), float(v),
                                          name)
                         /\ pp' = check_sliders_values(r)
                         /\ escaped' = ""
                         /\ pc' = "create"
                         /\ started' = started + 1

\* PullPush.execute_push, up to the try.
ExecutePush ==
    /\ pc = "idle"
    /\ started < MaxOps
    /\ \E s \in Picks :
         /\ Enter(s)
         /\ LET r == selection_check(s)
            IN IF r.raised
               THEN /\ escaped' = "IndexError"
                    /\ op' = Aborted("push", s)
                    /\ pc' = "done"
                    /\ UNCHANGED <<started, pp>>
               ELSE LET name == Format(r.geo, <<"Push">>)
                    IN /\ \E rad \in 0..MaxRadius, v \in 1..MaxStrength :
                            op' = NewOp("push", s, r, float(rad), float(v),
                                        name)
                       /\ pp' = check_sliders_values(r)
                       /\ escaped' = ""
                       /\ pc' = "open"
                       /\ started' = started + 1

\* ------------------------------------------------------ the guard's steps
\* An exception raised in the body: caught by the try of execute and
\* execute_push, not caught by execute_pull.
Raise(msg) ==
    IF op.kind = "pull"
    THEN /\ pc' = "done"
         /\ escaped' = msg
         /\ op' = op
    ELSE /\ pc' = "x_resume"
         /\ op' = [op EXCEPT !.err = msg]
         /\ escaped' = escaped

\* mc.undoInfo(openChunk=True)
OpenChunk ==
    /\ pc = "open"
    /\ opens' = opens + 1
    /\ chunk' = chunk + 1
    /\ pc' = "suspend"
    /\ UNCHANGED <<sel, curTime, manage, closes, scene, node, weights, paintCtx,
                   notes, note, pp, op, escaped, started>>

\* mel.eval("paneLayout -e -manage false $gMainPane")
Suspend ==
    /\ pc = "suspend"
    /\ manage' = FALSE
    /\ pc' = IF op.kind = "smooth" THEN "jump" ELSE "create"
    /\ UNCHANGED <<sel, curTime, chunk, opens, closes, scene, node, weights, paintCtx,
                   notes, note, pp, op, escaped, started>>

\* Faulty execute: the current frame is remembered but the time is left.
Jump_Stay ==
    /\ pc = "jump"
    /\ \E ok \in BOOLEAN :
         IF ok
         THEN /\ curTime' = curTime
              /\ op' = [op EXCEPT !.currentFrame = curTime]
              /\ pc' = "create"
              /\ escaped' = escaped
         ELSE /\ curTime' = curTime
              /\ Raise("currentTime failed")
    /\ UNCHANGED <<sel, manage, chunk, opens, closes, scene, node, weights,
                   paintCtx, notes, note, pp, started>>

\* superDelta.execute: remember the current frame, go to the first frame.
Jump ==
    /\ pc = "jump"
    /\ \E ok \in BOOLEAN :
         IF ok
         THEN /\ curTime' = FirstFrame
              /\ op' = [op EXCEPT !.currentFrame = curTime]
              /\ pc' = "create"
              /\ escaped' = escaped
         ELSE /\ curTime' = curTime
              /\ Raise("currentTime failed")
    /\ UNCHANGED <<sel, manage, chunk, opens, closes, scene, node, weights, paintCtx,
                   notes, note, pp, started>>

\* ------------------------------------------------------ deformer creation
\* Arguments the three call sites pass on.
IterationArg(o) == int(o.value)
\* Faulty Push: the strength is passed on without the sign change.
StrengthArg_NoNegation(o) == o.value
StrengthArg(o) == IF o.kind = "push" THEN Times(o.value, 0 - 1) ELSE o.value
OffsetArg(o) == IF o.kind = "push" THEN PushOffset ELSE PullOffset
RadiusArg(o) == IF o.kind = "push" THEN o.radius ELSE int(o.radius)

\* The node mc.deltaMush creates for deltaMush(geo, vtx, iteration_value);
\* the host's default displacement is 1.
deltaMush(geo, iteration_value) ==
    LET at == IF objectType(geo) = "mesh" THEN listRelatives(geo) ELSE geo
    IN [type |-> "deltaMush", name |-> Format(at, <<"superDelta">>),
        target |-> at, si |-> iteration_value.val, strength |-> 0,
        offset |-> 0, displacement |-> 1, texture |-> 0, hidden |-> FALSE]

\* The node mc.textureDeformer creates for
\* texture_deformer(geo, vtx, offset, strength_value, name).
texture_deformer(geo, offset, strength_value, name) ==
    [type |-> "textureDeformer", name |-> Format(name, <<"texDef">>),
     target |-> geo, si |-> 0, strength |-> strength_value.val,
     offset |-> offset, displacement |-> 0, texture |-> 0, hidden |-> FALSE]

\* Whether commands follow the creation of the node inside the factory.
HasPost(o) == o.kind # "smooth" \/ objectType(o.geo) = "mesh"

\* Faulty host: a deformer already in the scene is reused, no node is added.
Create_Reuse ==
    /\ pc = "create"
    /\ \E ok \in BOOLEAN :
         IF ok
         THEN /\ scene' = IF scene > 0 THEN scene ELSE scene + 1
              /\ node' = IF op.kind = "smooth"
                         THEN deltaMush(op.geo, IterationArg(op))
                         ELSE texture_deformer(op.geo, OffsetArg(op),
                                               StrengthArg(op), op.name)
              /\ weights' = [v \in Verts |-> WeightScale]
              /\ op' = [op EXCEPT !.d = scene']
              /\ pc' = IF HasPost(op) THEN "post" ELSE "p_zero"
              /\ escaped' = escaped
         ELSE /\ UNCHANGED <<scene, node, weights>>
              /\ Raise("creation failed")
    /\ UNCHANGED <<sel, curTime, manage, chunk, opens, closes, paintCtx, notes,
                   note, pp, started>>

\* mc.deltaMush(...) / mc.textureDeformer(...): the host adds the node, with
\* full influence everywhere, or rejects the call.
Create ==
    /\ pc = "create"
    /\ \E ok \in BOOLEAN :
         IF ok
         THEN /\ scene' = scene + 1
              /\ node' = IF op.kind = "smooth"
                         THEN deltaMush(op.geo, IterationArg(op))
                         ELSE texture_deformer(op.geo, OffsetArg(op),
                                               StrengthArg(op), op.name)
              /\ weights' = [v \in Verts |-> WeightScale]
              /\ op' = [op EXCEPT !.d = scene + 1]
              /\ pc' = IF HasPost(op) THEN "post" ELSE "p_zero"
              /\ escaped' = escaped
         ELSE /\ UNCHANGED <<scene, node, weights>>
              /\ Raise("creation failed")
    /\ UNCHANGED <<sel, curTime, manage, chunk, opens, closes, paintCtx, notes, note, pp,
                   started>>

\* The mc.setAttr calls after the creation: displacement 0 on the deltaMush
\* of a mesh; texture 1,1,1 and hiddenInOutliner on the texture deformer.
Post ==
    /\ pc = "post"
    /\ \E out \in {"ok", "fail1", "fail2"} :
         /\ out = "fail2" => op.kind # "smooth"
         /\ node' =
              IF op.kind = "smooth"
              THEN IF out = "ok"
                   THEN [node EXCEPT !.displacement = 0]
                   ELSE node
              ELSE IF out = "ok"
                   THEN [node EXCEPT !.texture = 1, !.hidden = TRUE]
                   ELSE IF out = "fail2"
                        THEN [node EXCEPT !.texture = 1]
                        ELSE node
         /\ IF out = "ok"
            THEN /\ pc' = "p_zero"
                 /\ UNCHANGED <<op, escaped>>
            ELSE Raise("setAttr failed")
    /\ UNCHANGED <<sel, curTime, manage, chunk, opens, closes, scene, weights,
                   paintCtx, notes, note, pp, started>>

\* ------------------------------------------------------------- paint_mode
AfterPaint(o) ==
    IF o.kind = "smooth" THEN "timeback"
    ELSE IF o.kind = "push" THEN "resume" ELSE "done"

\* Faulty paint_mode: the exception is passed on to the caller.
PaintExcept_Propagate(msg) ==
    /\ op' = [op EXCEPT !.err = msg, !.paintErr = msg]
    /\ pc' = IF op.kind = "pull" THEN "done" ELSE "x_resume"

\* paint_mode's except clause: print the error and return normally.
PaintExcept(msg) ==
    /\ op' = [op EXCEPT !.paintErr = msg]
    /\ pc' = AfterPaint(op)

Log(c) == [op EXCEPT !.cmds = Append(@, c)]

VertComps(vs) == {[t |-> "vtx", i |-> v] : v \in vs}
SelVerts(s) == {c.i : c \in {x \in s.comps : x.t = "vtx"}}

\* mc.select(vtx)
select(s, vtx) == [s EXCEPT !.whole = FALSE, !.comps = VertComps(Range(vtx))]
\* invertSelection
invertSelection(s) == [s EXCEPT !.comps = VertComps(Verts \ SelVerts(s))]
\* Faulty growth: only the newly reached ring stays selected.
GrowPolygonSelectionRegion_Border(s) ==
    [s EXCEPT !.comps =
        VertComps(UNION {Neighbours(v) : v \in SelVerts(s)} \ SelVerts(s))]
\* mc.GrowPolygonSelectionRegion()
GrowPolygonSelectionRegion(s) ==
    [s EXCEPT !.comps =
        VertComps(SelVerts(s) \cup UNION {Neighbours(v) : v \in SelVerts(s)})]

RECURSIVE Sum(_, _)
Sum(w, vs) ==
    IF vs = {} THEN 0
    ELSE LET v == CHOOSE x \in vs : TRUE IN w[v] + Sum(w, vs \ {v})

\* The average of the weights of vs in fixed point, rounded up: as in
\* floating point, the average is 0 only if every weight is 0.
Average(w, vs) == (Sum(w, vs) + Cardinality(vs) - 1) \div Cardinality(vs)

\* A flood of the paint tool over the selected vertices: Replace sets the
\* value, Smooth averages each vertex with its neighbours.
FloodReplace(w, vs) == [v \in Verts |-> IF v \in vs THEN WeightScale ELSE w[v]]
\* Faulty smoothing: the average reaches two rings out.
FloodSmooth_TwoRings(w, vs) ==
    [v \in Verts |->
        IF v \in vs
        THEN Average(w, {v} \cup Neighbours(v)
                            \cup UNION {Neighbours(u) : u \in Neighbours(v)})
        ELSE w[v]]
FloodSmooth(w, vs) ==
    [v \in Verts |->
        IF v \in vs THEN Average(w, Neighbours(v) \cup {v}) ELSE w[v]]

\* mc.select(geo, af=1); mc.percent(deformer_name, v=0)
PZero ==
    /\ pc = "p_zero"
    /\ sel' = [sel EXCEPT !.whole = TRUE]
    /\ \E ok \in BOOLEAN :
         IF ok
         THEN /\ weights' = [v \in Verts |-> 0]
              /\ op' = Log("zero")
              /\ pc' = "p_ctx"
         ELSE /\ weights' = weights
              /\ PaintExcept("percent failed")
    /\ UNCHANGED <<curTime, manage, chunk, opens, closes, scene, node, paintCtx, notes, note,
                   pp, escaped, started>>

\* Faulty paint_mode: the strokes are not guarded by `if vtx:`.
PCtx_NoVtxTest ==
    /\ pc = "p_ctx"
    /\ \E ok \in BOOLEAN :
         IF ok
         THEN /\ paintCtx' = op.d
              /\ op' = Log("ctx")
              /\ pc' = "p_replace"
         ELSE /\ paintCtx' = paintCtx
              /\ PaintExcept("paint tool failed")
    /\ UNCHANGED <<sel, curTime, manage, chunk, opens, closes, scene, node, weights,
                   notes, note, pp, escaped, started>>

\* ArtPaintBlendShapeWeightsTool; artSetToolAndSelectAttr; then `if vtx:`
PCtx ==
    /\ pc = "p_ctx"
    /\ \E ok \in BOOLEAN :
         IF ok
         THEN /\ paintCtx' = op.d
              /\ op' = Log("ctx")
              /\ pc' = IF op.vtx # <<>> THEN "p_replace" ELSE AfterPaint(op)
         ELSE /\ paintCtx' = paintCtx
              /\ PaintExcept("paint tool failed")
    /\ UNCHANGED <<sel, curTime, manage, chunk, opens, closes, scene, node, weights,
                   notes, note, pp, escaped, started>>

\* mc.select(vtx); Replace, value 1, flood
PReplace ==
    /\ pc = "p_replace"
    /\ sel' = select(sel, op.vtx)
    /\ \E ok \in BOOLEAN :
         IF ok
         THEN /\ weights' = FloodReplace(weights, SelVerts(sel'))
              /\ op' = Log("replace")
              /\ pc' = "p_invert"
         ELSE /\ weights' = weights
              /\ PaintExcept("replace stroke failed")
    /\ UNCHANGED <<curTime, manage, chunk, opens, closes, scene, node, paintCtx, notes, note,
                   pp, escaped, started>>

\* mc.select(vtx); invertSelection
PInvert ==
    /\ pc = "p_invert"
    /\ \E ok \in BOOLEAN :
         IF ok
         THEN /\ sel' = invertSelection(select(sel, op.vtx))
              /\ op' = [Log("invert") EXCEPT !.i = 0]
              /\ pc' = "p_grow"
         ELSE /\ sel' = select(sel, op.vtx)
              /\ PaintExcept("invertSelection failed")
    /\ UNCHANGED <<curTime, manage, chunk, opens, closes, scene, node, weights, paintCtx,
                   notes, note, pp, escaped, started>>

\* for _ in range(smooth_value): mc.GrowPolygonSelectionRegion()
PGrow ==
    /\ pc = "p_grow"
    /\ IF RadiusArg(op).type # "int"
       THEN /\ PaintExcept("TypeError")
            /\ sel' = sel
       ELSE IF op.i < RadiusArg(op).val
       THEN \E ok \in BOOLEAN :
              IF ok
              THEN /\ sel' = GrowPolygonSelectionRegion(sel)
                   /\ op' = [Log("grow") EXCEPT !.i = @ + 1]
                   /\ pc' = "p_grow"
              ELSE /\ sel' = sel
                   /\ PaintExcept("grow failed")
       ELSE /\ sel' = sel
            /\ op' = op
            /\ pc' = "p_smoothop"
    /\ UNCHANGED <<curTime, manage, chunk, opens, closes, scene, node, weights, paintCtx,
                   notes, note, pp, escaped, started>>

\* artAttrPaintOperation Smooth; value 1
PSmoothOp ==
    /\ pc = "p_smoothop"
    /\ \E ok \in BOOLEAN :
         IF ok
         THEN /\ op' = [Log("smoothop") EXCEPT !.i = 0]
              /\ pc' = "p_stroke"
         ELSE PaintExcept("paint operation failed")
    /\ UNCHANGED <<host, notes, note, pp, escaped, started>>

\* Faulty loop: one smooth flood more than smooth_value.
PStroke_OneMore ==
    /\ pc = "p_stroke"
    /\ IF op.i <= RadiusArg(op).val
       THEN \E ok \in BOOLEAN :
              IF ok
              THEN /\ weights' = FloodSmooth(weights, SelVerts(sel))
                   /\ op' = [Log("stroke") EXCEPT !.i = @ + 1]
                   /\ pc' = "p_stroke"
              ELSE /\ weights' = weights
                   /\ PaintExcept("smooth stroke failed")
       ELSE /\ weights' = weights
            /\ op' = op
            /\ pc' = "p_restore"
    /\ UNCHANGED <<sel, curTime, manage, chunk, opens, closes, scene, node,
                   paintCtx, notes, note, pp, escaped, started>>

\* for _ in range(smooth_value): flood
PStroke ==
    /\ pc = "p_stroke"
    /\ IF op.i < RadiusArg(op).val
       THEN \E ok \in BOOLEAN :
              IF ok
              THEN /\ weights' = FloodSmooth(weights, SelVerts(sel))
                   /\ op' = [Log("stroke") EXCEPT !.i = @ + 1]
                   /\ pc' = "p_stroke"
              ELSE /\ weights' = weights
                   /\ PaintExcept("smooth stroke failed")
       ELSE /\ weights' = weights
            /\ op' = op
            /\ pc' = "p_restore"
    /\ UNCHANGED <<sel, curTime, manage, chunk, opens, closes, scene, node, paintCtx,
                   notes, note, pp, escaped, started>>

\* mc.select(vtx), then return
PRestore ==
    /\ pc = "p_restore"
    /\ \E ok \in BOOLEAN :
         IF ok
         THEN /\ sel' = select(sel, op.vtx)
              /\ op' = Log("restore")
              /\ pc' = AfterPaint(op)
         ELSE /\ sel' = sel
              /\ PaintExcept("select failed")
    /\ UNCHANGED <<curTime, manage, chunk, opens, closes, scene, node, weights, paintCtx,
                   notes, note, pp, escaped, started>>

\* ------------------------------------------------- leaving the operation
\* superDelta.execute: mc.currentTime(currentFrame, edit=1)
TimeBack ==
    /\ pc = "timeback"
    /\ \E ok \in BOOLEAN :
         IF ok
         THEN /\ curTime' = op.currentFrame
              /\ pc' = "resume"
              /\ UNCHANGED <<op, escaped>>
         ELSE /\ curTime' = curTime
              /\ Raise("currentTime failed")
    /\ UNCHANGED <<sel, manage, chunk, opens, closes, scene, node, weights, paintCtx,
                   notes, note, pp, started>>

\* mel.eval("paneLayout -e -manage true $gMainPane") at the end of the try
Resume ==
    /\ pc = "resume"
    /\ manage' = TRUE
    /\ pc' = "close"
    /\ UNCHANGED <<sel, curTime, chunk, opens, closes, scene, node, weights, paintCtx,
                   notes, note, pp, op, escaped, started>>

\* mc.undoInfo(closeChunk=True) at the end of the try, then return
CloseChunk ==
    /\ pc = "close"
    /\ closes' = closes + 1
    /\ chunk' = chunk - 1
    /\ pc' = "done"
    /\ UNCHANGED <<sel, curTime, manage, opens, scene, node, weights, paintCtx,
                   notes, note, pp, op, escaped, started>>

\* Faulty except clause: the viewport is not turned back on.
XResume_NoRestore ==
    /\ pc = "x_resume"
    /\ manage' = manage
    /\ pc' = "x_close"
    /\ UNCHANGED <<sel, curTime, chunk, opens, closes, scene, node, weights, paintCtx,
                   notes, note, pp, op, escaped, started>>

\* except Exception as e: paneLayout -manage true
XResume ==
    /\ pc = "x_resume"
    /\ manage' = TRUE
    /\ pc' = "x_close"
    /\ UNCHANGED <<sel, curTime, chunk, opens, closes, scene, node, weights, paintCtx,
                   notes, note, pp, op, escaped, started>>

\* except: mc.undoInfo(closeChunk=True)
XClose ==
    /\ pc = "x_close"
    /\ closes' = closes + 1
    /\ chunk' = chunk - 1
    /\ pc' = "x_notify"
    /\ UNCHANGED <<sel, curTime, manage, opens, scene, node, weights, paintCtx,
                   notes, note, pp, op, escaped, started>>

\* except: QMessageBox.critical(self, 'Error', f'An error occurred: {e}')
XNotify ==
    /\ pc = "x_notify"
    /\ notes' = notes + 1
    /\ note' = [title |-> "Error", text |-> <<"An error occurred: ", op.err>>]
    /\ pc' = "done"
    /\ UNCHANGED <<host, pp, op, escaped, started>>

\* The handler has returned to Qt: its locals are gone, and so is what was
\* followed for it (its calls, its dialog, its deformer).
Return ==
    /\ pc = "done"
    /\ pc' = "idle"
    /\ op' = NoOp
    /\ escaped' = ""
    /\ opens' = 0
    /\ closes' = 0
    /\ node' = NoNode
    /\ weights' = [v \in Verts |-> 0]
    /\ paintCtx' = 0
    /\ notes' = 0
    /\ note' = NoNote
    /\ UNCHANGED <<sel, curTime, manage, chunk, scene, pp, started>>

Next ==
    \/ Execute
    \/ ExecutePull
    \/ ExecutePush
    \/ OpenChunk
    \/ Suspend
    \/ Jump
    \/ Create
    \/ Post
    \/ PZero
    \/ PCtx
    \/ PReplace
    \/ PInvert
    \/ PGrow
    \/ PSmoothOp
    \/ PStroke
    \/ PRestore
    \/ TimeBack
    \/ Resume
    \/ CloseChunk
    \/ XResume
    \/ XClose
    \/ XNotify
    \/ Return

Spec == Init /\ [][Next]_vars

\* ------------------------------------------- selection_check on its own
\* Every selection of at most MaxSelItems components of one object.
RECURSIVE CompSets(_)
CompSets(k) ==
    IF k = 0 THEN {{}}
    ELSE {cs \cup {c} : cs \in CompSets(k - 1), c \in Components}
SelInputs ==
    {NoSelection} \cup {ObjectSel(o) : o \in Objects}
        \cup {ComponentSel(o, cs) :
                o \in Objects, cs \in CompSets(MaxSelItems) \ {{}}}

InitSel ==
    /\ sel \in SelInputs
    /\ curTime = FirstFrame
    /\ manage = TRUE
    /\ chunk = 0
    /\ opens = 0
    /\ closes = 0
    /\ scene = 0
    /\ node = NoNode
    /\ weights = [v \in Verts |-> 0]
    /\ paintCtx = 0
    /\ notes = 0
    /\ note = NoNote
    /\ pp = [geo |-> NoName]
    /\ pc = "idle"
    /\ op = NoOp
    /\ escaped = ""
    /\ started = 0

\* self.geo, self.geo_type, self.vtxSel = cl_pr.selection_check()
Resolve ==
    /\ pc = "idle"
    /\ op.kind = "none"
    /\ escaped = ""
    /\ LET r == selection_check(sel)
       IN IF r.raised
          THEN /\ escaped' = "IndexError"
               /\ op' = op
          ELSE /\ escaped' = ""
               /\ op' = NewOp("resolve", sel, r, NoValue, NoValue, NoName)
    /\ UNCHANGED <<host, notes, note, pp, pc, started>>

NextSel == Resolve

SpecSel == InitSel /\ [][NextSel]_vars

\* ----------------------------------------------------------------- claims
CreatePcs == {"create", "post"}
PaintPcs == {"p_zero", "p_ctx", "p_replace", "p_invert", "p_grow",
             "p_smoothop", "p_stroke", "p_restore"}
CreationErrors == {"creation failed", "setAttr failed"}
\* The handler got past selection resolution and has just returned.
Returned == pc = "done" /\ op.geo # NoName
ObjectMode(s) == s.node # NoName /\ s.whole /\ s.comps = {}
\* paint_mode was called and ran to its end without a failing host command.
PaintedThrough ==
    /\ node # NoNode
    /\ pc \notin CreatePcs \cup PaintPcs
    /\ op.err \notin CreationErrors /\ escaped \notin CreationErrors
    /\ op.paintErr = ""

\* C1: every deformer creation and every paint step of the three
\* operations runs with an undo chunk open and the viewport suspended.
C1_InsideGuard ==
    pc \in CreatePcs \cup PaintPcs => chunk = 1 /\ manage = FALSE

\* C2: whenever control is back with the host the chunk was opened and
\* closed exactly once per operation that got past selection resolution,
\* and never more than one chunk is open.
C2_ChunkOncePerOperation ==
    /\ chunk \in {0, 1}
    /\ pc \in {"done", "idle"} => chunk = 0 /\ opens = closes
    /\ Returned => opens = 1 /\ closes = 1

\* C3: when a smoothing operation returns, the current time is the one it
\* was invoked at, on the success path and when creation raised.
C3_TimeRestored ==
    Returned /\ op.kind = "smooth" => curTime = op.pre.time

C5_CreationErrorReported ==
    Returned =>
        /\ escaped \notin CreationErrors
        /\ op.err \in CreationErrors =>
              /\ notes = 1
              /\ note.text = <<"An error occurred: ", op.err>>
        /\ op.err = "" => notes = 0 /\ note = NoNote

\* C6: the created deformer is named after the object of the selection
\* resolved in the same operation, with the suffix of its kind, and is
\* attached to that object.
Suffix(kind) ==
    IF kind = "smooth" THEN <<"superDelta">>
    ELSE IF kind = "pull" THEN <<"Pull", "_", "texDef">>
    ELSE <<"Push", "_", "texDef">>
C6_NameFromCurrentSelection ==
    node # NoNode =>
        /\ node.name = Format(node.target, Suffix(op.kind))
        /\ node.target[1] = op.pre.sel.node[1]

\* C7: a handler entered with nothing selected aborts with an exception
\* before any mutation: no chunk opened, viewport flag, time and scene
\* untouched, whatever earlier operations did.
C7_EmptySelectionAborts ==
    [][(pc = "idle" /\ sel'.node = NoName) =>
          /\ pc' = "done"
          /\ escaped' # ""
          /\ chunk' = chunk /\ opens' = 0
          /\ manage' = manage /\ curTime' = curTime
          /\ scene' = scene /\ node' = NoNode]_vars
C7_Witness ==
    /\ pc = "done"
    /\ op.kind # "none" /\ op.geo = NoName
    /\ escaped = "IndexError"
    /\ scene > 0

\* C8: for an object-mode selection selection_check returns no vertex;
\* paint_mode zeroes the whole mesh, enters the paint context and applies
\* no replace stroke, inversion, growth or smooth stroke, so the influence
\* is 0 on every vertex.
C8_ObjectModeZeroEverywhere ==
    (op.geo # NoName /\ ObjectMode(op.pre.sel)) =>
        /\ op.vtx = <<>>
        /\ Range(op.cmds) \subseteq {"zero", "ctx"}
        /\ "zero" \in Range(op.cmds) => \A v \in Verts : weights[v] = 0
        /\ PaintedThrough => op.cmds = <<"zero", "ctx">> /\ paintCtx = op.d
C8_Witness ==
    /\ Returned
    /\ ObjectMode(op.pre.sel)
    /\ node # NoNode
    /\ op.cmds = <<"zero", "ctx">>
    /\ \A v \in Verts : weights[v] = 0

\* C9: for a component selection mixing vertices, edges and faces, the
\* vertices selection_check returns are exactly the selected vertices and
\* the vertices of the selected edges and faces.
IncidentVerts(cs) ==
    {v \in Verts :
        \E c \in cs : \/ c.t = "vtx" /\ v = c.i
                      \/ c.t = "e" /\ v \in EdgeVerts(c.i)
                      \/ c.t = "f" /\ v \in FaceVerts(c.i)}
C9_ResolvedVertices ==
    (op.kind = "resolve" /\ ~sel.whole) =>
        Range(op.vtx) = IncidentVerts(sel.comps)
C9_Witness ==
    /\ op.kind = "resolve"
    /\ {c.t : c \in sel.comps} = {"vtx", "e", "f"}
    /\ Range(op.vtx) # {}

\* C10: for the same strength slider value s, Pull passes s and Push
\* passes -s to the texture deformer.
C10_SignInversion ==
    node.type = "textureDeformer" =>
        /\ op.kind = "pull" => node.strength = op.value.val
        /\ op.kind = "push" => node.strength = 0 - op.value.val
        /\ node.target = op.geo
C10_Witness ==
    /\ op.kind = "push"
    /\ node.type = "textureDeformer"
    /\ op.value.val = MaxStrength
    /\ node.strength = 0 - MaxStrength

\* The handler raised nothing: no dialog was shown and nothing escaped.
Succeeded == Returned /\ op.err = "" /\ escaped = ""

\* C11: every successful invocation adds exactly one new deformer to the
\* scene, on top of the ones earlier invocations left: none is reused, and
\* no invocation adds more than one.
C11_OneNewDeformer ==
    /\ Succeeded =>
          /\ node # NoNode
          /\ scene = op.pre.deformers + 1
          /\ op.d = scene
    /\ op.geo # NoName => scene \in {op.pre.deformers, op.pre.deformers + 1}
    /\ scene <= started
C11_Witness ==
    /\ Succeeded
    /\ op.pre.deformers = 1
    /\ scene = 2

\* C12: a failure at any step of paint_mode stays inside paint_mode: the
\* created deformer remains, weights that were zeroed are not put back, no
\* dialog is shown for it and nothing escapes, and the operation goes on to
\* its normal exit (time and viewport as on entry, chunk closed).
C12_PaintFailureContained ==
    op.paintErr # "" =>
        /\ node # NoNode /\ scene = op.pre.deformers + 1
        /\ op.err # op.paintErr /\ escaped = ""
        /\ note.text # <<"An error occurred: ", op.paintErr>>
        /\ ("zero" \in Range(op.cmds) /\ "replace" \notin Range(op.cmds))
              => \A v \in Verts : weights[v] = 0
        /\ pc \in {"timeback", "resume", "close", "done", "x_resume",
                   "x_close", "x_notify"}
        /\ (pc = "done" /\ op.err = "") =>
              /\ notes = 0
              /\ curTime = op.pre.time
              /\ manage = op.pre.manage
              /\ chunk = op.pre.chunk /\ opens = closes
              /\ op.kind \in {"smooth", "push"} => closes = 1
C12_Witness ==
    /\ Returned
    /\ op.kind = "smooth"
    /\ op.paintErr = "replace stroke failed"
    /\ op.err = ""
    /\ closes = 1
    /\ curTime = op.pre.time /\ op.pre.time # FirstFrame

\* paint_mode was called and has returned, and no host command failed in it
\* (range() of Push's float radius may have raised).
PaintRan ==
    /\ node # NoNode
    /\ pc \notin CreatePcs \cup PaintPcs
    /\ op.err \notin CreationErrors /\ escaped \notin CreationErrors
    /\ op.paintErr \in {"", "TypeError"}

\* C13: with a non-empty component selection and smooth radius 0 there is
\* no selection growth and no smooth stroke, and the influence is exactly 1
\* on the selected vertices and exactly 0 on every other vertex.
C13_RadiusZeroHardEdge ==
    (PaintRan /\ op.vtx # <<>> /\ op.radius.val = 0) =>
        /\ "grow" \notin Range(op.cmds)
        /\ "stroke" \notin Range(op.cmds)
        /\ \A v \in Verts :
              weights[v] = IF v \in Range(op.vtx) THEN WeightScale ELSE 0
C13_Witness ==
    /\ Returned
    /\ op.radius.val = 0
    /\ op.cmds = <<"zero", "ctx", "replace", "invert", "smoothop", "restore">>
    /\ Cardinality(Range(op.vtx)) > 1
    /\ \E v \in Verts : weights[v] = 0

\* The vertices at most k rings away from the vertices vs.
RECURSIVE Ring(_, _)
Ring(vs, k) ==
    IF k = 0 THEN vs
    ELSE LET in == Ring(vs, k - 1)
         IN in \cup UNION {Neighbours(v) : v \in in}
Strokes(cmds) == Cardinality({k \in 1..Len(cmds) : cmds[k] = "stroke"})

\* C14: in a component-mode operation with smooth radius r the influence
\* is non-zero only around the chosen vertices: each smooth stroke spreads
\* it by at most one ring, so every vertex more than r rings away from all
\* of them has influence 0, and the chosen vertices keep a non-zero one.
C14_InfluenceWithinRadius ==
    "replace" \in Range(op.cmds) =>
        /\ Strokes(op.cmds) <= op.radius.val
        /\ \A v \in Verts \ Ring(Range(op.vtx), Strokes(op.cmds)) :
              weights[v] = 0
        /\ \A v \in Range(op.vtx) : weights[v] > 0
C14_Witness ==
    /\ Returned
    /\ op.paintErr = ""
    /\ op.radius.val = MaxRadius
    /\ Strokes(op.cmds) = MaxRadius
    /\ \E v \in Verts \ Range(op.vtx) : weights[v] > 0
    /\ Verts \ Ring(Range(op.vtx), MaxRadius) # {}

\* The collar of paint_mode for the vertices vtx and radius k: the inverted
\* selection grown k times.
RECURSIVE Collar(_, _)
Collar(vtx, k) ==
    IF k = 0 THEN invertSelection(select(NoSelection, vtx))
    ELSE GrowPolygonSelectionRegion(Collar(vtx, k - 1))
Grows(cmds) == Cardinality({k \in 1..Len(cmds) : cmds[k] = "grow"})

\* C15: for the same mesh and selection the collar is monotone in the
\* radius: the selection after k growth steps is the collar for radius k,
\* and every vertex of the collar for radius k is in the one for k + 1.
C15_CollarMonotone ==
    pc \in {"p_grow", "p_smoothop", "p_stroke", "p_restore"} =>
        /\ sel.comps = Collar(op.vtx, Grows(op.cmds)).comps
        /\ \A k \in 0..(MaxRadius - 1) :
              Collar(op.vtx, k).comps \subseteq Collar(op.vtx, k + 1).comps
C15_Witness ==
    /\ pc = "p_smoothop"
    /\ Grows(op.cmds) = MaxRadius
    /\ Collar(op.vtx, 0).comps # Collar(op.vtx, 1).comps
    /\ Collar(op.vtx, 1).comps # Collar(op.vtx, MaxRadius).comps

Repeat(c, n) == [k \in 1..n |-> c]
\* The commands of paint_mode for a non-empty vtx and radius r, in order.
PaintOrder(r) ==
    <<"zero", "ctx", "replace", "invert">> \o Repeat("grow", r)
        \o <<"smoothop">> \o Repeat("stroke", r) \o <<"restore">>

\* C16: for each entry point, with a non-empty component selection and the
\* slider's radius r, paint_mode zeroes the weights, enters the paint
\* context, floods Replace on the components, inverts, grows r times,
\* floods Smooth r times and restores the selection, in this order, and
\* leaves the original components selected.
C16_PaintOrder ==
    (PaintRan /\ op.vtx # <<>>) =>
        /\ op.cmds = PaintOrder(op.radius.val)
        /\ sel.comps = VertComps(Range(op.vtx))

\* C17: a smoothing operation remembers the current time and goes to the
\* first frame before it creates the deformer, stays there throughout
\* creation and painting, and goes back only after painting: the deformer
\* is created at the beginning of the timeline.
C17_CreatedAtFirstFrame ==
    op.kind = "smooth" =>
        /\ pc \in {"open", "suspend", "jump"} =>
              curTime = op.pre.time /\ node = NoNode
        /\ pc \in CreatePcs \cup PaintPcs =>
              curTime = FirstFrame /\ op.currentFrame = op.pre.time
        /\ (node # NoNode /\ curTime # FirstFrame) =>
              /\ pc \in {"resume", "close", "done"}
              /\ curTime = op.currentFrame
C17_Witness ==
    /\ op.kind = "smooth"
    /\ pc = "p_stroke"
    /\ op.pre.time # FirstFrame
    /\ curTime = FirstFrame
    /\ op.currentFrame = op.pre.time

\* A handler is between its entry and its return.
InFlight == pc \notin {"idle", "done"}

\* C18: while an operation is in flight its triggers are disabled, so that
\* no second operation can start before the first has closed its undo
\* chunk and restored the viewport flag.
C18_TriggersDisabled ==
    InFlight => \A b \in Buttons : ~isEnabled(b)

\* C19: when a command fails after the host has created the deformer, the
\* guard does not remove it: the number of deformers never decreases
\* during an operation, the created deformer is still there once the error
\* has been reported, and the viewport, undo and time state are restored.
C19_DeformerKeptOnFailure ==
    /\ op.geo # NoName => scene >= op.pre.deformers
    /\ "setAttr failed" \in {op.err, escaped} =>
          node # NoNode /\ scene = op.pre.deformers + 1
    /\ (Returned /\ op.err = "setAttr failed") =>
          /\ notes = 1
          /\ manage = op.pre.manage
          /\ chunk = op.pre.chunk
          /\ curTime = op.pre.time

\* C20: every smoothing deformer created on a mesh, selected in object
\* mode or in component mode, is attached to the mesh's transform, not to
\* its shape, and has displacement 0 once it is created.
C20_TransformAndNoDisplacement ==
    (node.type = "deltaMush" /\ pc \notin CreatePcs
                             /\ op.err \notin CreationErrors) =>
        /\ objectType(node.target) = "transform"
        /\ node.target = TransformOf(op.pre.sel.node[1])
        /\ node.displacement = 0
====
